---- MODULE Spec2Model ----
(***************************************************************************)
(* Model of ops/dot-inl.h: the dot-product kernels DotKernelDouble and     *)
(* DotKernelCompensated, the Dot adapters that bind them to the            *)
(* decompress-and-reduce driver, and the two ConditionNumber overloads.    *)
(*                                                                         *)
(* Floating-point values are modelled by the integers they hold: every     *)
(* input is an integer, and an operation's result is the exact integer     *)
(* result rounded to the significand width of its type (round to nearest,  *)
(* ties to even), so a float cannot tell 1e8 + 1 from 1e8. A SIMD vector   *)
(* is a sequence of lanes.                                                 *)
(***************************************************************************)
EXTENDS Integers, Sequences, FiniteSets, TLC

\* ------------------------------------------------------------------ bounds
\* Largest element count of a call.
MaxNum == 9
\* hn::MaxLanes: the largest lane count of a vector; Lanes(d) ranges over 1..MaxLanes.
MaxLanes == 3
\* Largest span offset passed to the array adapters.
MaxOfs == 1

\* ------------------------------------------------------- arithmetic model
Abs(x) == IF x < 0 THEN -x ELSE x

Sign(x) == IF x < 0 THEN -1 ELSE 1

RECURSIVE Pow2(_)
Pow2(k) == IF k <= 0 THEN 1 ELSE 2 * Pow2(k - 1)

RECURSIVE BitLen(_)
BitLen(a) == IF a = 0 THEN 0 ELSE 1 + BitLen(a \div 2)

\* x rounded to the nearest integer with a p-bit significand, ties to even.
RoundTo(p, x) ==
  LET a == Abs(x)
      k == BitLen(a) - p
  IN IF k <= 0 THEN x
     ELSE LET q == Pow2(k)
              lo == (a \div q) * q
              r == a - lo
              m == IF 2 * r < q THEN lo
                   ELSE IF 2 * r > q THEN lo + q
                   ELSE IF (a \div q) % 2 = 0 THEN lo ELSE lo + q
          IN Sign(x) * m

\* Element and lane types.
Types == {"F32", "BF16", "SFP"}

\* Significand width of a type, the implicit bit included.
MantBits(T) ==
  CASE T = "F64" -> 53
    [] T = "F32" -> 24
    [] T = "BF16" -> 8
    [] T = "SFP" -> 3

\* Storage width of a type in bits.
TypeBits(T) ==
  CASE T = "F64" -> 64
    [] T = "F32" -> 32
    [] T = "BF16" -> 16
    [] T = "SFP" -> 8

\* The value a span of type T holds for the input x: SFP magnitudes are
\* below 1.875, so the only integers it holds are -1, 0 and 1.
EncodeTo(T, x) ==
  IF T = "SFP" THEN (IF x > 0 THEN 1 ELSE IF x < 0 THEN -1 ELSE 0)
  ELSE RoundTo(MantBits(T), x)

\* Decompression of one stored value to the kernel's raw type.
DecodeTo(raw, x) == RoundTo(MantBits(raw), x)

RoundF32(x) == RoundTo(MantBits("F32"), x)

RoundF64(x) == RoundTo(MantBits("F64"), x)

\* Error-free transforms: the rounded result and the exact residual.
TwoProducts(a, b) == [p |-> RoundF32(a * b), err |-> a * b - RoundF32(a * b)]

TwoSums(a, b) == [s |-> RoundF32(a + b), err |-> a + b - RoundF32(a + b)]

\* ------------------------------------------------------------ lane vectors
ZeroVec(L) == [k \in 1..L |-> 0]

RoundUpTo(n, m) == ((n + m - 1) \div m) * m

\* Element j (1-based) of s. A read outside s is flagged by the caller
\* (hist.oob) and reads as 0 here.
At(s, j) == IF j \in DOMAIN s THEN s[j] ELSE 0

\* Whether the L elements of s from ofs (0-based) are all inside s.
InSpan(s, ofs, L) == ofs + L <= Len(s)

\* L lanes of span s starting at element ofs (0-based), decoded to raw.
Decompress(t, s, ofs, L) == [k \in 1..L |-> DecodeTo(t, At(s, ofs + k))]

\* The remaining elements of s from ofs, decoded, zero-padded to whole vectors.
DecompressAndZeroPad(t, s, ofs, rem, L) ==
  [k \in 1..RoundUpTo(rem, L) |-> IF k <= rem THEN DecodeTo(t, At(s, ofs + k)) ELSE 0]

\* hn::Load of L lanes at padded + pos.
LoadVec(padded, pos, L) == [k \in 1..L |-> At(padded, pos + k)]

RECURSIVE SumSeq(_, _)
SumSeq(s, n) == IF n = 0 THEN 0 ELSE s[n] + SumSeq(s, n - 1)

\* UpdateCascadedSums: sum = TwoSums(sum, v), the error added to sum_err.
UpdateCascadedSums(v, s, e) ==
  [sum |-> [k \in DOMAIN s |-> TwoSums(s[k], v[k]).s],
   err |-> [k \in DOMAIN s |-> RoundF32(e[k] + TwoSums(s[k], v[k]).err)]]

\* AssimilateCascadedSums: folds (other_sum, other_err) into (sum, err).
AssimilateCascadedSums(os, oe, s, e) ==
  LET u == UpdateCascadedSums(os, s, e)
  IN [sum |-> u.sum, err |-> [k \in DOMAIN s |-> RoundF32(u.err[k] + oe[k])]]

\* ReduceCascadedSums: lane by lane TwoSum, then total + total_err.
RECURSIVE ReduceLanes(_, _, _)
ReduceLanes(s, e, n) ==
  IF n = 0 THEN [total |-> 0, err |-> 0]
  ELSE LET r == ReduceLanes(s, e, n - 1)
           t == TwoSums(r.total, s[n])
       IN [total |-> t.s, err |-> RoundF32(RoundF32(r.err + e[n]) + t.err)]

ReduceCascadedSums(s, e) ==
  LET r == ReduceLanes(s, e, Len(s)) IN RoundF32(r.total + r.err)

\* hn::ReduceSum of a double vector.
RECURSIVE ReduceSum(_, _)
ReduceSum(s, n) == IF n = 0 THEN 0 ELSE RoundF64(ReduceSum(s, n - 1) + s[n])

\* ------------------------------------------------------ strategy selection
IsF32(T) == T = "F32"

\* Promotion to double is lossless only for two single-precision operands.
CanDecompressToDouble(WT, VT) == IsF32(WT) /\ IsF32(VT)

\* DotKernelDouble::Raw and ::State.
DoubleRaw(VT, WT) == "F64"

\* Mutant: && for ||.
CompensatedRaw_And(VT, WT) == IF IsF32(VT) /\ IsF32(WT) THEN "F32" ELSE "BF16"

\* DotKernelCompensated::Raw: hwy::If<IsF32<VT>() || IsF32<WT>(), float, BF16>.
CompensatedRaw(VT, WT) == IF IsF32(VT) \/ IsF32(WT) THEN "F32" ELSE "BF16"

DotKernelDefault(WT, VT) ==
  IF CanDecompressToDouble(WT, VT) THEN "Double" ELSE "Compensated"

KernelRaw(k, VT, WT) == IF k = "Double" THEN DoubleRaw(VT, WT) ELSE CompensatedRaw(VT, WT)

KernelState(k) == IF k = "Double" THEN "F64" ELSE "F32"

\* Lanes of the accumulator vectors for n lanes of raw: a BF16 vector has
\* twice the lanes of the float vector that hn::Repartition gives it.
StateLanes(raw, n) == IF raw = "BF16" THEN n \div 2 ELSE n

Groups == 0..3

\* ---------------------------------------------------------- DotKernelDouble
\* hn::MulAdd on double vectors: one rounding of w * v + sum.
MulAdd(wv, vv, sv) == [k \in DOMAIN sv |-> RoundF64(wv[k] * vv[k] + sv[k])]

\* Mutant: the second line of Update4 copied from the first without renaming
\* its operands (sum1 = MulAdd(w0, v0, sum1)).
DoubleUpdate4_CopyPaste(W, V, sum, comp) ==
  [sum |-> [g \in Groups |-> IF g = 1 THEN MulAdd(W[0], V[0], sum[1])
                             ELSE MulAdd(W[g], V[g], sum[g])],
   comp |-> comp]

DoubleUpdate4(W, V, sum, comp) ==
  [sum |-> [g \in Groups |-> MulAdd(W[g], V[g], sum[g])], comp |-> comp]

DoubleUpdate1(w0, v0, sum, comp) ==
  [sum |-> [sum EXCEPT ![0] = MulAdd(w0, v0, sum[0])], comp |-> comp]

\* The pairs (consumed group, receiving group) of Reduce's tree, in order.
DoubleReduceOrder == << <<1, 0>>, <<3, 2>>, <<2, 0>> >>

\* One hn::Add of the tree: sum[dst] = sum[dst] + sum[src].
DoubleFold(src, dst, sum, comp) ==
  [sum |-> [sum EXCEPT ![dst] = [k \in DOMAIN sum[dst] |-> RoundF64(sum[dst][k] + sum[src][k])]],
   comp |-> comp]

\* static_cast<float>(hn::ReduceSum(dd, sum0)).
DoubleReduceFinal(sum, comp) == RoundF32(ReduceSum(sum[0], Len(sum[0])))

\* ----------------------------------------------------- DotKernelCompensated
\* One group of the Raw = float path: TwoProducts, TwoSums, both errors into comp.
CompensatedGroupF32(wv, vv, sv, cv) ==
  [sum |-> [k \in DOMAIN sv |-> TwoSums(TwoProducts(wv[k], vv[k]).p, sv[k]).s],
   comp |-> [k \in DOMAIN sv |->
              RoundF32(cv[k] + RoundF32(TwoProducts(wv[k], vv[k]).err
                                        + TwoSums(TwoProducts(wv[k], vv[k]).p, sv[k]).err))]]

\* WidenMulPairwiseAdd: float lane j holds w[2j]*v[2j] + w[2j+1]*v[2j+1].
WidenMulPairwiseAdd(wv, vv) ==
  [j \in 1..(Len(wv) \div 2) |->
     RoundF32(wv[2 * j - 1] * vv[2 * j - 1] + wv[2 * j] * vv[2 * j])]

\* One group of the Raw = BF16 path: only the sum's error goes into comp.
CompensatedGroupBF16(wv, vv, sv, cv) ==
  LET prod == WidenMulPairwiseAdd(wv, vv)
  IN [sum |-> [k \in DOMAIN sv |-> TwoSums(prod[k], sv[k]).s],
      comp |-> [k \in DOMAIN sv |-> RoundF32(cv[k] + TwoSums(prod[k], sv[k]).err)]]

CompensatedUpdate4F32(W, V, sum, comp) ==
  [sum |-> [g \in Groups |-> CompensatedGroupF32(W[g], V[g], sum[g], comp[g]).sum],
   comp |-> [g \in Groups |-> CompensatedGroupF32(W[g], V[g], sum[g], comp[g]).comp]]

CompensatedUpdate4BF16(W, V, sum, comp) ==
  [sum |-> [g \in Groups |-> CompensatedGroupBF16(W[g], V[g], sum[g], comp[g]).sum],
   comp |-> [g \in Groups |-> CompensatedGroupBF16(W[g], V[g], sum[g], comp[g]).comp]]

\* Mutant: Update1 adds only the sum's error to comp0, as the BF16 overload does.
CompensatedUpdate1F32_NoProductError(w0, v0, sum, comp) ==
  [sum |-> [sum EXCEPT ![0] = CompensatedGroupF32(w0, v0, sum[0], comp[0]).sum],
   comp |-> [comp EXCEPT ![0] =
               [k \in DOMAIN comp[0] |->
                  RoundF32(comp[0][k]
                           + TwoSums(TwoProducts(w0[k], v0[k]).p, sum[0][k]).err)]]]

CompensatedUpdate1F32(w0, v0, sum, comp) ==
  [sum |-> [sum EXCEPT ![0] = CompensatedGroupF32(w0, v0, sum[0], comp[0]).sum],
   comp |-> [comp EXCEPT ![0] = CompensatedGroupF32(w0, v0, sum[0], comp[0]).comp]]

CompensatedUpdate1BF16(w0, v0, sum, comp) ==
  [sum |-> [sum EXCEPT ![0] = CompensatedGroupBF16(w0, v0, sum[0], comp[0]).sum],
   comp |-> [comp EXCEPT ![0] = CompensatedGroupBF16(w0, v0, sum[0], comp[0]).comp]]

\* Mutant: the last combine names sum3 and comp3 for sum2 and comp2.
CompensatedReduceOrder_Typo == << <<1, 0>>, <<3, 2>>, <<3, 0>> >>

\* The pairs (consumed group, receiving group) of Reduce's tree, in order.
CompensatedReduceOrder == << <<1, 0>>, <<3, 2>>, <<2, 0>> >>

\* Mutant: Reduce adds the sums as DotKernelDouble does and drops the errors.
CompensatedFold_PlainAdd(src, dst, sum, comp) ==
  [sum |-> [sum EXCEPT ![dst] = [k \in DOMAIN sum[dst] |-> RoundF32(sum[dst][k] + sum[src][k])]],
   comp |-> comp]

\* One AssimilateCascadedSums(df, sum[src], comp[src], sum[dst], comp[dst]).
CompensatedFold(src, dst, sum, comp) ==
  LET a == AssimilateCascadedSums(sum[src], comp[src], sum[dst], comp[dst])
  IN [sum |-> [sum EXCEPT ![dst] = a.sum], comp |-> [comp EXCEPT ![dst] = a.err]]

\* return ReduceCascadedSums(df, sum0, comp0).
CompensatedReduceFinal(sum, comp) == ReduceCascadedSums(sum[0], comp[0])

\* ------------------------------------------------- kernel capability set
KernelUpdate4(k, raw, W, V, sum, comp) ==
  IF k = "Double" THEN DoubleUpdate4(W, V, sum, comp)
  ELSE IF raw = "F32" THEN CompensatedUpdate4F32(W, V, sum, comp)
  ELSE CompensatedUpdate4BF16(W, V, sum, comp)

KernelUpdate1(k, raw, w0, v0, sum, comp) ==
  IF k = "Double" THEN DoubleUpdate1(w0, v0, sum, comp)
  ELSE IF raw = "F32" THEN CompensatedUpdate1F32(w0, v0, sum, comp)
  ELSE CompensatedUpdate1BF16(w0, v0, sum, comp)

KernelReduceOrder(k) == IF k = "Double" THEN DoubleReduceOrder ELSE CompensatedReduceOrder

KernelFold(k, src, dst, sum, comp) ==
  IF k = "Double" THEN DoubleFold(src, dst, sum, comp)
  ELSE CompensatedFold(src, dst, sum, comp)

KernelReduceFinal(k, sum, comp) ==
  IF k = "Double" THEN DoubleReduceFinal(sum, comp) ELSE CompensatedReduceFinal(sum, comp)

\* ------------------------------------------------------------------ state
VARIABLES
  op,          \* the entry point called
  WT, VT,      \* element types of the weight span and of the vector
  N,           \* hn::Lanes of the raw vectors
  num,         \* element count
  w, vec,      \* the weight span (w_ofs + num elements) and the vector
  w_ofs,       \* offset into the weight span
  scale,       \* CompressedArray::scale()
  kernel, raw, \* the kernel the entry point selected and its Raw type
  pc,          \* position in the call
  i, remaining, padded_w, padded_v, padded_pos,
  sum, comp,   \* sum0..sum3 and comp0..comp3, each a vector
  rstep,       \* the next step of the kernel's Reduce
  cn,          \* ConditionNumber's sum, sum_err, sum_abs, sum_abs_err
  dot,         \* the value the kernel's Reduce returned
  ret,         \* the value the entry point returned
  hist         \* what the call has done so far (observation only)

vars == <<op, WT, VT, N, num, w, vec, w_ofs, scale, kernel, raw, pc, i, remaining,
          padded_w, padded_v, padded_pos, sum, comp, rstep, cn, dot, ret, hist>>

inputs == <<op, WT, VT, N, num, w, vec, w_ofs, scale>>

\* ----------------------------------------------------------------- inputs
DotOps == {"DotDouble", "DotPointer", "DotArray", "DotCompressed"}

CondOps == {"ConditionNumber2", "ConditionNumber1"}

\* Element k (0-based) of the n-element input named p.
Pattern(p, k, n) ==
  CASE p = "iota" -> k + 1
    [] p = "rev" -> n - k
    [] p = "ones" -> 1
    [] p = "zero" -> 0
    [] p = "alt" -> IF k % 2 = 0 THEN 3 ELSE -3
    [] p = "cancel" -> IF k % 4 = 0 THEN 100000000
                       ELSE IF k % 4 = 2 THEN -100000000 ELSE 1
    [] p = "big" -> 4097
    [] p = "wide" -> 16777215

\* The (weight, vector) inputs of a two-operand call.
PatternPairs ==
  { <<"iota", "rev">>, <<"iota", "ones">>, <<"cancel", "ones">>, <<"zero", "rev">>,
    <<"alt", "ones">>, <<"alt", "iota">>, <<"big", "big">>, <<"wide", "alt">> }

ScaleValues == {1, 3}

MakeInput(T, p, n) == [k \in 1..n |-> EncodeTo(T, Pattern(p, k - 1, n))]

\* size_t is 64 bits wide. A value is held as SizeLimbs digits of base
\* SizeBase, least significant first, so that 2^64 - 1 is <<65535, 65535,
\* 65535, 65535>>.
SizeBase == Pow2(16)

SizeLimbs == 4

\* The low k digits of the integer x in two's complement.
RECURSIVE SizeDigits(_, _)
SizeDigits(x, k) ==
  IF k = 0 THEN << >> ELSE <<x % SizeBase>> \o SizeDigits(x \div SizeBase, k - 1)

\* The size_t that holds the integer x: x modulo 2^64.
SizeT(x) == SizeDigits(x, SizeLimbs)

\* size_t subtraction: a - b modulo 2^64, wrapping instead of going negative.
SizeSub(a, b) == SizeT(a - b)

\* Unsigned comparison of two size_t values.
SizeLt(a, b) ==
  \E k \in 1..SizeLimbs : a[k] < b[k] /\ \A j \in (k + 1)..SizeLimbs : a[j] = b[j]

SizeLe(a, b) == a = b \/ SizeLt(a, b)

\* Whether a size_t is small enough to count the elements of a buffer here.
SizeFits(a) == a[2] < SizeBase \div 2 /\ \A k \in 3..SizeLimbs : a[k] = 0

\* The integer a size_t holds, for one that fits.
SizeInt(a) == a[1] + SizeBase * a[2]

\* What the call has done so far.
NoHist(n) ==
  [updates |-> 0,                   \* kernel updates run
   folds |-> << >>,                 \* (consumed, receiving) group of each combine
   covered |-> [k \in 1..n |-> 0],  \* times element k entered a sum
   mainIters |-> 0, tailIters |-> 0,
   underflow |-> FALSE,             \* a size_t subtraction wrapped
   oob |-> FALSE]                   \* a read outside a span or a scratch buffer

Init ==
  /\ op \in DotOps \cup CondOps
  /\ WT \in Types
  /\ VT \in {"F32", "BF16"}
  /\ op \in {"DotDouble", "DotArray"} \cup CondOps => WT = "F32"
  /\ op \in {"DotDouble"} \cup CondOps => VT = "F32"
  /\ op = "DotPointer" => WT \in {"F32", "BF16"}
  /\ N \in 1..MaxLanes
  /\ (op \in DotOps /\ ~IsF32(WT) /\ ~IsF32(VT)) => N % 2 = 0
  /\ num \in 0..MaxNum
  /\ w_ofs \in 0..MaxOfs
  /\ op \in {"DotPointer"} \cup CondOps => w_ofs = 0
  /\ scale \in ScaleValues
  /\ op # "DotCompressed" => scale = 1
  /\ \E pp \in PatternPairs :
       /\ w = IF op = "ConditionNumber1" THEN << >> ELSE MakeInput(WT, pp[1], w_ofs + num)
       /\ vec = IF op = "ConditionNumber1" THEN MakeInput(VT, pp[1], num)
                ELSE MakeInput(VT, pp[2], num)
  /\ kernel = "none" /\ raw = "none"
  /\ pc = "entry"
  /\ i = 0 /\ remaining = SizeT(0) /\ padded_w = << >> /\ padded_v = << >> /\ padded_pos = 0
  /\ sum = [g \in Groups |-> << >>] /\ comp = [g \in Groups |-> << >>]
  /\ rstep = 1
  /\ cn = [sum |-> ZeroVec(N), sum_err |-> ZeroVec(N),
           sum_abs |-> ZeroVec(N), sum_abs_err |-> ZeroVec(N)]
  /\ dot = 0
  /\ ret = [inf |-> FALSE, n |-> 0, d |-> 1]
  /\ hist = NoHist(num)

\* ------------------------------------------------------------ Dot adapters
\* Dot(const WT* w, const VT* vec, num): the unscaled Dot of the whole span.
DotPointerReturn(sc, d) == d

\* Dot(const std::array<float, kCapacity>& w, w_ofs, vec, num).
DotArrayReturn(sc, d) == d

\* Mutant: the adapter forgets w.scale().
DotCompressedReturn_NoScale(sc, d) == d

\* Dot(const CompressedArray<MatT, kCapacity>& w, w_ofs, vec, num).
DotCompressedReturn(sc, d) == RoundF32(sc * d)

\* DotDouble(d, w, w_ofs, vec, num).
DotDoubleReturn(sc, d) == d

\* The kernel an entry point hands to the driver.
EntryKernel(o, wt, vt) == IF o = "DotDouble" THEN "Double" ELSE DotKernelDefault(wt, vt)

\* --------------------------------------------------- decompress-and-reduce
\* The elements (1-based) one update of L lanes at element pos covers.
Covers(pos, L, n) == {k \in 1..n : pos < k /\ k <= pos + L}

AddCover(c, S) == [k \in DOMAIN c |-> IF k \in S THEN c[k] + 1 ELSE c[k]]

\* Lanes of one block of the driver's main loop: four vectors.
DriverBlock == 4

\* Elements of the driver's scratch buffers: two vectors of the maximum width.
DriverScratch == 2 * MaxLanes

\* Mutant: < for <= in the loop condition.
DriverLoopCond_OffByOne(n, L, at) == n >= DriverBlock * L /\ SizeLt(SizeT(at), SizeSub(n, DriverBlock * L))

\* Whether the main loop runs another block at i.
DriverLoopCond(n, L, at) == n >= DriverBlock * L /\ SizeLe(SizeT(at), SizeSub(n, DriverBlock * L))

\* Entry: the kernel and its raw type are fixed by the types, the accumulators zeroed.
DotEntry ==
  /\ pc = "entry" /\ op \in DotOps
  /\ kernel' = EntryKernel(op, WT, VT)
  /\ raw' = KernelRaw(kernel', VT, WT)
  /\ sum' = [g \in Groups |-> ZeroVec(StateLanes(raw', N))]
  /\ comp' = [g \in Groups |-> ZeroVec(StateLanes(raw', N))]
  /\ pc' = "loop4"
  /\ UNCHANGED <<inputs, i, remaining, padded_w, padded_v, padded_pos, rstep, cn, dot,
                 ret, hist>>

\* One iteration of the main loop: four vectors of each operand, one Update4.
DriverUpdate4 ==
  /\ pc = "loop4" /\ DriverLoopCond(num, N, i)
  /\ LET W == [g \in Groups |-> Decompress(raw, w, w_ofs + i + g * N, N)]
         V == [g \in Groups |-> Decompress(raw, vec, i + g * N, N)]
         r == KernelUpdate4(kernel, raw, W, V, sum, comp)
     IN /\ sum' = r.sum
        /\ comp' = r.comp
        /\ hist' = [hist EXCEPT !.updates = @ + 1, !.mainIters = @ + 1,
                      !.covered = AddCover(@, Covers(i, DriverBlock * N, num)),
                      !.oob = @ \/ ~InSpan(w, w_ofs + i, DriverBlock * N)
                                \/ ~InSpan(vec, i, DriverBlock * N)]
  /\ i' = i + DriverBlock * N
  /\ UNCHANGED <<inputs, kernel, raw, pc, remaining, padded_w, padded_v, padded_pos,
                 rstep, cn, dot, ret>>

\* After the main loop: the remainder is decoded and zero-padded, if there is one.
DriverRemainder ==
  /\ pc = "loop4" /\ ~DriverLoopCond(num, N, i)
  /\ remaining' = SizeSub(num, i)
  /\ IF ~SizeFits(remaining')
     THEN \* a wrapped count: the padding would run far past the scratch buffer
          /\ UNCHANGED <<padded_w, padded_v>>
          /\ pc' = "abort"
          /\ hist' = [hist EXCEPT !.underflow = TRUE, !.oob = TRUE]
     ELSE LET rem == SizeInt(remaining')
          IN /\ IF rem # 0
                THEN /\ padded_w' = DecompressAndZeroPad(raw, w, w_ofs + i, rem, N)
                     /\ padded_v' = DecompressAndZeroPad(raw, vec, i, rem, N)
                     /\ pc' = "tail"
                ELSE /\ UNCHANGED <<padded_w, padded_v>>
                     /\ pc' = "reduce"
             /\ hist' = [hist EXCEPT !.oob = @ \/ ~InSpan(w, w_ofs + i, rem)
                                               \/ ~InSpan(vec, i, rem)
                                               \/ RoundUpTo(rem, N) > DriverScratch]
  /\ UNCHANGED <<inputs, kernel, raw, i, padded_pos, sum, comp, rstep, cn, dot, ret>>

\* One iteration of the tail loop: one padded vector of each operand, one Update1.
DriverUpdate1 ==
  /\ pc = "tail" /\ SizeLt(SizeT(padded_pos), remaining)
  /\ LET w0 == LoadVec(padded_w, padded_pos, N)
         v0 == LoadVec(padded_v, padded_pos, N)
         r == KernelUpdate1(kernel, raw, w0, v0, sum, comp)
     IN /\ sum' = r.sum
        /\ comp' = r.comp
        /\ hist' = [hist EXCEPT !.updates = @ + 1, !.tailIters = @ + 1,
                      !.covered = AddCover(@, Covers(i + padded_pos, N, num)),
                      !.oob = @ \/ ~InSpan(padded_w, padded_pos, N)
                                \/ padded_pos + N > DriverScratch]
  /\ padded_pos' = padded_pos + N
  /\ pc' = IF SizeLt(SizeT(padded_pos'), remaining) THEN "tail" ELSE "reduce"
  /\ UNCHANGED <<inputs, kernel, raw, i, remaining, padded_w, padded_v, rstep, cn, dot,
                 ret>>

\* One combine of the kernel's Reduce.
KernelReduceStep ==
  /\ pc = "reduce" /\ rstep <= Len(KernelReduceOrder(kernel))
  /\ LET pair == KernelReduceOrder(kernel)[rstep]
         r == KernelFold(kernel, pair[1], pair[2], sum, comp)
     IN /\ sum' = r.sum
        /\ comp' = r.comp
        /\ hist' = [hist EXCEPT !.folds = Append(@, pair)]
  /\ rstep' = rstep + 1
  /\ UNCHANGED <<inputs, kernel, raw, pc, i, remaining, padded_w, padded_v, padded_pos,
                 cn, dot, ret>>

\* The end of Reduce: the horizontal reduction of group 0.
KernelReduceReturn ==
  /\ pc = "reduce" /\ rstep > Len(KernelReduceOrder(kernel))
  /\ dot' = KernelReduceFinal(kernel, sum, comp)
  /\ pc' = "ret"
  /\ UNCHANGED <<inputs, kernel, raw, i, remaining, padded_w, padded_v, padded_pos,
                 sum, comp, rstep, cn, ret, hist>>

\* The adapter returns.
DotReturn ==
  /\ pc = "ret"
  /\ ret' = [inf |-> FALSE, d |-> 1,
             n |-> CASE op = "DotPointer" -> DotPointerReturn(scale, dot)
                     [] op = "DotArray" -> DotArrayReturn(scale, dot)
                     [] op = "DotCompressed" -> DotCompressedReturn(scale, dot)
                     [] op = "DotDouble" -> DotDoubleReturn(scale, dot)]
  /\ pc' = "done"
  /\ UNCHANGED <<inputs, kernel, raw, i, remaining, padded_w, padded_v, padded_pos,
                 sum, comp, rstep, cn, dot, hist>>

\* --------------------------------------------------------- ConditionNumber
AbsVec(m) == [k \in DOMAIN m |-> Abs(m[k])]

\* hn::Mul on float vectors.
MulVec(a, b) == [k \in DOMAIN a |-> RoundF32(a[k] * b[k])]

\* UpdateCascadedSums of m into (sum, sum_err) and of |m| into (sum_abs, sum_abs_err).
Cascade(c, m) ==
  LET a == UpdateCascadedSums(m, c.sum, c.sum_err)
      b == UpdateCascadedSums(AbsVec(m), c.sum_abs, c.sum_abs_err)
  IN [sum |-> a.sum, sum_err |-> a.err, sum_abs |-> b.sum, sum_abs_err |-> b.err]

\* Lanes of the scratch buffers padded_w and padded_v: 2 * hn::MaxLanes(df).
CondScratch == 2 * MaxLanes

\* Mutant: the loop is entered without the guard.
CondGuard_Missing(n, L) == TRUE

\* if (num >= 2 * N): whether the loop, and its bound num - 2 * N, is reached at all.
CondGuard(n, L) == n >= 2 * L

\* i <= num - 2 * N.
CondLoopCond(n, L, at) == SizeLe(SizeT(at), SizeSub(n, 2 * L))

\* The body of the two-operand main loop.
Cond2MainStep(c, w0, w1, v0, v1) == Cascade(Cascade(c, MulVec(w0, v0)), MulVec(w1, v1))

\* Mutant: the tail loop updates the signed sum only.
Cond2TailStep_NoAbsSum(c, w0, v0) ==
  LET a == UpdateCascadedSums(MulVec(w0, v0), c.sum, c.sum_err)
  IN [c EXCEPT !.sum = a.sum, !.sum_err = a.err]

\* The body of the two-operand tail loop.
Cond2TailStep(c, w0, v0) == Cascade(c, MulVec(w0, v0))

\* The body of the single-operand main loop.
Cond1MainStep(c, v0, v1) == Cascade(Cascade(c, v0), v1)

\* The body of the single-operand tail loop.
Cond1TailStep(c, v0) == Cascade(c, v0)

\* Mutant: the divisor is used without hwy::ScalarAbs.
CondResult_NoAbs(c) ==
  LET div == ReduceCascadedSums(c.sum, c.sum_err)
  IN IF div = 0 THEN [inf |-> TRUE, n |-> 0, d |-> 1]
     ELSE [inf |-> FALSE, n |-> 2 * ReduceCascadedSums(c.sum_abs, c.sum_abs_err), d |-> div]

\* The end of both overloads: +infinity for a zero divisor, else the ratio n / d.
CondResult(c) ==
  LET div == Abs(ReduceCascadedSums(c.sum, c.sum_err))
  IN IF div = 0 THEN [inf |-> TRUE, n |-> 0, d |-> 1]
     ELSE [inf |-> FALSE, n |-> 2 * ReduceCascadedSums(c.sum_abs, c.sum_abs_err), d |-> div]

\* HWY_ASSERT(cond >= 0.0).
CondAssert(r) == r.inf \/ r.n * Sign(r.d) >= 0

CondEntry ==
  /\ pc = "entry" /\ op \in CondOps
  /\ raw' = "F32"
  /\ pc' = "cn_loop"
  /\ UNCHANGED <<inputs, kernel, i, remaining, padded_w, padded_v, padded_pos, sum, comp,
                 rstep, cn, dot, ret, hist>>

\* One iteration of the main loop of ConditionNumber: two vectors of each operand.
CondMain ==
  /\ pc = "cn_loop" /\ CondGuard(num, N) /\ CondLoopCond(num, N, i)
  /\ LET v0 == Decompress(raw, vec, i, N)
         v1 == Decompress(raw, vec, i + N, N)
     IN cn' = IF op = "ConditionNumber2"
              THEN Cond2MainStep(cn, Decompress(raw, w, i, N), Decompress(raw, w, i + N, N),
                                 v0, v1)
              ELSE Cond1MainStep(cn, v0, v1)
  /\ hist' = [hist EXCEPT !.mainIters = @ + 1,
                !.covered = AddCover(@, Covers(i, 2 * N, num)),
                !.underflow = @ \/ num < 2 * N,
                !.oob = @ \/ ~InSpan(vec, i, 2 * N)]
  /\ i' = i + 2 * N
  /\ UNCHANGED <<inputs, kernel, raw, pc, remaining, padded_w, padded_v, padded_pos, sum,
                 comp, rstep, dot, ret>>

\* After the main loop: the remainder is decoded and zero-padded, if there is one.
CondRemainder ==
  /\ pc = "cn_loop" /\ ~(CondGuard(num, N) /\ CondLoopCond(num, N, i))
  /\ remaining' = SizeSub(num, i)
  /\ IF ~SizeFits(remaining')
     THEN \* a wrapped count: the padding would run far past the scratch buffer
          /\ UNCHANGED <<padded_w, padded_v>>
          /\ pc' = "abort"
          /\ hist' = [hist EXCEPT !.underflow = TRUE, !.oob = TRUE]
     ELSE LET rem == SizeInt(remaining')
          IN /\ IF rem # 0
                THEN /\ padded_w' = (IF op = "ConditionNumber2"
                                     THEN DecompressAndZeroPad(raw, w, i, rem, N)
                                     ELSE << >>)
                     /\ padded_v' = DecompressAndZeroPad(raw, vec, i, rem, N)
                     /\ pc' = "cn_tail"
                ELSE /\ UNCHANGED <<padded_w, padded_v>>
                     /\ pc' = "cn_end"
             /\ hist' = [hist EXCEPT
                           !.underflow = @ \/ (CondGuard(num, N) /\ num < 2 * N)
                                           \/ num < i,
                           !.oob = @ \/ ~InSpan(vec, i, rem)
                                     \/ RoundUpTo(rem, N) > CondScratch]
  /\ UNCHANGED <<inputs, kernel, raw, i, padded_pos, sum, comp, rstep, cn, dot, ret>>

\* One iteration of the tail loop: one padded vector of each operand.
CondTail ==
  /\ pc = "cn_tail" /\ SizeLt(SizeT(padded_pos), remaining)
  /\ LET v0 == LoadVec(padded_v, padded_pos, N)
     IN cn' = IF op = "ConditionNumber2"
              THEN Cond2TailStep(cn, LoadVec(padded_w, padded_pos, N), v0)
              ELSE Cond1TailStep(cn, v0)
  /\ hist' = [hist EXCEPT !.tailIters = @ + 1,
                !.covered = AddCover(@, Covers(i + padded_pos, N, num)),
                !.oob = @ \/ padded_pos + N > CondScratch]
  /\ padded_pos' = padded_pos + N
  /\ pc' = IF SizeLt(SizeT(padded_pos'), remaining) THEN "cn_tail" ELSE "cn_end"
  /\ UNCHANGED <<inputs, kernel, raw, i, remaining, padded_w, padded_v, sum, comp, rstep,
                 dot, ret>>

\* The divisor is tested, the ratio computed and asserted non-negative.
CondReturn ==
  /\ pc = "cn_end"
  /\ ret' = CondResult(cn)
  /\ pc' = IF CondAssert(ret') THEN "done" ELSE "abort"
  /\ UNCHANGED <<inputs, kernel, raw, i, remaining, padded_w, padded_v, padded_pos, sum,
                 comp, rstep, cn, dot, hist>>

Next ==
  \/ DotEntry \/ DriverUpdate4 \/ DriverRemainder \/ DriverUpdate1
  \/ KernelReduceStep \/ KernelReduceReturn \/ DotReturn
  \/ CondEntry \/ CondMain \/ CondRemainder \/ CondTail \/ CondReturn

Spec == Init /\ [][Next]_vars

\* ------------------------------------------------------------- references
\* The exact products of the call, element by element (the single-operand
\* ConditionNumber has no product: its terms are the elements themselves).
Terms ==
  [k \in 1..num |-> IF op = "ConditionNumber1" THEN vec[k] ELSE w[w_ofs + k] * vec[k]]

\* The scalar reference dot product, in exact arithmetic.
ScalarDot == SumSeq(Terms, num)

\* The exact sum of the absolute products.
ScalarAbsDot == SumSeq([k \in 1..num |-> Abs(Terms[k])], num)

\* Every product and every partial sum is a single-precision value.
ExactInputs == ScalarAbsDot < Pow2(24)

\* The exact sum of the products of the elements the call has covered so far.
CoveredDot == SumSeq([k \in 1..num |-> hist.covered[k] * Terms[k]], num)

\* The exact total of all lanes of all four groups of a and b.
GroupTotal(a, b) ==
  LET L == Len(a[0])
  IN SumSeq([g \in 1..4 |-> SumSeq(a[g - 1], L) + SumSeq(b[g - 1], L)], 4)

\* A running sum rounded to single precision after every operation.
RECURSIVE NaiveDot(_)
NaiveDot(k) == IF k = 0 THEN 0 ELSE RoundF32(NaiveDot(k - 1) + RoundF32(Terms[k]))

\* x is within 1e-3 relative error of the non-zero value e.
WithinRel(x, e) == Abs(x - e) * 1000 <= Abs(e)

EveryElementOnce == \A k \in 1..num : hist.covered[k] = 1

Returned == pc \in {"ret", "done"} /\ op \in DotOps

\* ------------------------------------------------------------------ claims
\* C1: for non-empty operands whose products and partial sums are exactly
\* representable, Dot returns exactly the scalar reference dot product, with
\* DotKernelDouble and with DotKernelCompensated, for every lane width and
\* every element count (1, 2*N-1, multiples of N); w=[1,2,3,4], v=[4,3,2,1]
\* gives 20.
C1_DotExact ==
  (Returned /\ num >= 1 /\ ExactInputs) =>
     /\ dot = ScalarDot
     /\ (w = <<1, 2, 3, 4>> /\ vec = <<4, 3, 2, 1>>) => dot = 20

\* A compensated call of 2*N-1 elements (tail path only) has returned the reference.
C1_Witness ==
  /\ Returned /\ kernel = "Compensated" /\ N = 2 /\ num = 2 * N - 1 /\ w_ofs = 0
  /\ ExactInputs /\ dot = 10 /\ hist.tailIters = 2

\* The catastrophic-cancellation input w=[1e8, 1, -1e8, 1], v=[1, 1, 1, 1].
CancelInput ==
  /\ num = 4 /\ w_ofs = 0
  /\ w = <<100000000, 1, -100000000, 1>> /\ vec = <<1, 1, 1, 1>>

\* C2: on w=[1e8, 1, -1e8, 1], v=[1, 1, 1, 1] (exact dot product 2) the
\* result of DotKernelCompensated is within 1e-3 relative error of 2, and a
\* naive running sum rounded to single precision after every addition is not.
C2_Cancellation ==
  (Returned /\ kernel = "Compensated" /\ raw = "F32" /\ CancelInput) =>
     /\ ScalarDot = 2
     /\ WithinRel(dot, 2)
     /\ ~WithinRel(NaiveDot(num), 2)

\* The compensated kernel has returned 2 for the cancellation input, having
\* gone through Update4 (one lane per vector).
C2_Witness ==
  /\ Returned /\ kernel = "Compensated" /\ raw = "F32" /\ CancelInput
  /\ N = 1 /\ hist.mainIters = 1 /\ dot = 2 /\ NaiveDot(num) = 1

\* The signed sum ConditionNumber divides by, before its rounding to float:
\* the exact sum of the single-precision products.
CondSigned == SumSeq([k \in 1..num |-> RoundF32(Terms[k])], num)

\* The sum of the absolute single-precision products.
CondAbs == SumSeq([k \in 1..num |-> Abs(RoundF32(Terms[k]))], num)

CondDone == pc = "done" /\ op \in CondOps

\* C3 as stated: ConditionNumber returns a value >= 0, and +infinity if and
\* only if the signed sum rounds to exactly 0 while the sum of absolute
\* products is > 0 (an all-zero or empty operand does not yield +infinity).
C3_Original ==
  /\ pc # "abort"
  /\ CondDone =>
       /\ ret.inf \/ (ret.n >= 0 /\ ret.d > 0)
       /\ ret.inf <=> (RoundF32(CondSigned) = 0 /\ CondAbs > 0)

\* C3 as amended: ConditionNumber returns a value >= 0, and +infinity if and
\* only if the signed sum rounds to exactly 0, whatever the sum of absolute
\* products is: an all-zero or empty operand yields +infinity too.
C3_InfIffZeroSum ==
  /\ pc # "abort"
  /\ CondDone =>
       /\ ret.inf \/ (ret.n >= 0 /\ ret.d > 0)
       /\ ret.inf <=> (RoundF32(CondSigned) = 0)

\* ConditionNumber has returned +infinity for an operand whose absolute sum is 0.
C3_Witness == CondDone /\ ret.inf /\ CondAbs = 0 /\ num > 0

RECURSIVE Gcd(_, _)
Gcd(a, b) == IF b = 0 THEN a ELSE Gcd(b, a % b)

\* n1 / d1 = n2 / d2, for n >= 0 and d > 0.
RatEq(n1, d1, n2, d2) ==
  /\ n1 \div Gcd(n1, d1) = n2 \div Gcd(n2, d2)
  /\ d1 \div Gcd(n1, d1) = d2 \div Gcd(n2, d2)

IsNarrow(T) == TypeBits(T) < TypeBits("F32")

\* The total the narrow-widened path accumulates: each pair of adjacent
\* covered products added and rounded to single precision once, with no
\* error term for that rounding.
PairTotal ==
  LET T(k) == IF k <= num THEN hist.covered[k] * Terms[k] ELSE 0
      P == (num + 1) \div 2
  IN SumSeq([j \in 1..P |-> RoundF32(T(2 * j - 1) + T(2 * j))], P)

Updating == pc \in {"loop4", "tail"} \/ (pc = "reduce" /\ rstep = 1)

\* C5: when the compensated kernel is selected, its raw precision is single
\* precision, except exactly when both operands are of a type narrower than
\* single precision; only then is the narrow-widened path used, where the
\* products get no error term and only the running sum is compensated.
C5_RawPrecision ==
  (op \in DotOps /\ kernel = "Compensated") =>
     /\ raw \in {"F32", "BF16"}
     /\ raw = "BF16" <=> (IsNarrow(WT) /\ IsNarrow(VT))
     /\ (raw = "BF16" /\ Updating) => GroupTotal(sum, comp) = PairTotal

\* The narrow-widened path has run an update for a compressed weight type.
C5_Witness ==
  /\ kernel = "Compensated" /\ raw = "BF16" /\ WT = "SFP" /\ VT = "BF16"
  /\ hist.updates >= 1 /\ GroupTotal(sum, comp) # 0 /\ pc = "tail"

\* C6: the stored scale is applied once, after the unscaled reduction: the
\* CompressedArray adapter returns w.scale() times the value the unscaled Dot
\* returns for the same span, offset, vector and count; the pointer and the
\* std::array adapters return the unscaled value.
C6_ScaleOnce ==
  (pc = "done" /\ op \in DotOps) =>
     /\ op = "DotCompressed" => ret.n = RoundF32(scale * dot)
     /\ op \in {"DotPointer", "DotArray"} => ret.n = dot
     /\ (ExactInputs /\ scale * ScalarAbsDot < Pow2(24)) =>
          (dot = ScalarDot /\ ret.n = scale * ScalarDot)

\* The CompressedArray adapter has returned three times a non-zero unscaled Dot.
C6_Witness ==
  /\ pc = "done" /\ op = "DotCompressed" /\ scale = 3 /\ w_ofs = 1
  /\ dot # 0 /\ dot = ScalarDot /\ ret.n = 3 * dot

\* The reduction tree: 1 into 0, 3 into 2, then 2 into 0.
ReduceTree == << <<1, 0>>, <<3, 2>>, <<2, 0>> >>

\* What one update of group g alone would make of it: Update1 on lane-pair g.
AloneUpdate(g) ==
  LET W == Decompress(raw, w, w_ofs + i + g * N, N)
      V == Decompress(raw, vec, i + g * N, N)
      r == KernelUpdate1(kernel, raw, W, V, [h \in Groups |-> sum[g]],
                         [h \in Groups |-> comp[g]])
  IN <<r.sum[0], r.comp[0]>>

C7_State ==
  op \in DotOps =>
    /\ pc \in {"entry", "loop4", "tail"} => hist.folds = << >>
    /\ pc = "reduce" => hist.folds = SubSeq(ReduceTree, 1, rstep - 1)
    /\ pc \in {"ret", "done"} => hist.folds = ReduceTree

C7_Step ==
  /\ (pc = "loop4" /\ pc' = "loop4") =>
        \A g \in Groups : <<sum'[g], comp'[g]>> = AloneUpdate(g)
  /\ pc = "tail" => \A g \in 1..3 : sum'[g] = sum[g] /\ comp'[g] = comp[g]
  /\ pc \in {"reduce", "ret", "done"} => hist'.updates = hist.updates
  /\ (pc = "reduce" /\ pc' = "reduce") =>
        \A g \in Groups : g # ReduceTree[rstep][2] => (sum'[g] = sum[g] /\ comp'[g] = comp[g])

\* C7: within one call the four accumulator groups are combined exactly once,
\* at the end: Update4 changes group k from group k's own value and lane-pair
\* k only, Update1 touches only group 0, no update runs after Reduce has
\* begun, and Reduce folds 1 into 0, 3 into 2, then 2 into 0, each of groups
\* 1, 2 and 3 exactly once, before the final horizontal reduction of group 0.
C7_CombinedOnce == [](C7_State) /\ [][C7_Step]_vars

\* A call that ran Update4 and Update1 has folded its groups and returned.
C7_Witness ==
  /\ pc = "done" /\ op \in DotOps /\ hist.folds = ReduceTree
  /\ hist.mainIters >= 1 /\ hist.tailIters >= 1 /\ kernel = "Compensated"

\* C8: on the full-precision path of DotKernelCompensated, after any sequence
\* of Update4 and Update1 from zeroed accumulators, the total of sum_k + comp_k
\* over the four groups is the exact sum of the products processed so far: no
\* product error and no sum error is dropped.
C8_NothingDropped ==
  (op \in DotOps /\ kernel = "Compensated" /\ raw = "F32" /\ Updating) =>
     GroupTotal(sum, comp) = CoveredDot

\* Updates of the full-precision path have left a rounding error in a
\* compensation register, the product itself being inexact.
C8_Witness ==
  /\ kernel = "Compensated" /\ raw = "F32" /\ pc = "reduce" /\ rstep = 1
  /\ hist.mainIters >= 1 /\ hist.tailIters >= 1
  /\ \E k \in 1..num : RoundF32(Terms[k]) # Terms[k]
  /\ \E g \in Groups : \E l \in DOMAIN comp[g] : comp[g][l] # 0

C10_CondLoopsSafe ==
  op \in CondOps =>
    /\ ~hist.underflow /\ ~hist.oob
    /\ i <= num /\ i = hist.mainIters * 2 * N
    /\ pc \in {"cn_tail", "cn_end", "done"} => (SizeLt(remaining, SizeT(2 * N)) /\ remaining = SizeT(num - i))
    /\ pc = "cn_tail" => (SizeLt(SizeT(padded_pos), remaining) /\ padded_pos + N <= CondScratch)
    /\ pc \in {"cn_end", "done"} =>
         IF remaining = SizeT(0) THEN hist.tailIters = 0 ELSE hist.tailIters \in {1, 2}

\* ConditionNumber has returned for fewer than 2*N elements after two tail iterations.
C10_Witness ==
  /\ CondDone /\ num < 2 * N /\ hist.mainIters = 0 /\ hist.tailIters = 2 /\ N = MaxLanes

====
